---- MODULE Spec2Model ----
(***************************************************************************)
(* Portfolio risk-metrics engine of backend/server.py:                     *)
(*   safe_float, clean_data_for_json, calculate_portfolio_metrics.         *)
(*                                                                         *)
(* Numbers.  A Python/numpy float is modelled exactly, without rounding:   *)
(*   [k |-> "fin", c |-> q, r |-> s]   the real number  q * sqrt(s)        *)
(*   [k |-> "nan", ...]                not-a-number                        *)
(*   [k |-> "inf", c |-> <<+-1,1>>]    +infinity / -infinity               *)
(*   [k |-> "str", ...]                a non-numeric value (a string)      *)
(* and, for the other Python scalars the sanitizer meets,                  *)
(*   "int", "bool" (value in c), "none" (None), "nat" (pandas' missing     *)
(*   scalars pd.NaT / pd.NA), "datetime".                                  *)
(* where q, s are rationals <<numerator, denominator>> in lowest terms,    *)
(* denominator > 0, s >= 0.  The radicand s is 1 for every rational; it    *)
(* differs from 1 only for the values the code obtains through np.sqrt /   *)
(* np.std / **0.5 (volatility, the two ratios, skewness).                  *)
(***************************************************************************)
EXTENDS Integers, Sequences, FiniteSets, TLC

\* ------------------------------------------------------------------------
\* Bounds of the model
\* ------------------------------------------------------------------------
MaxLen == 4        \* longest valuation series (historical_data)
RepeatLen == 3     \* longest valuation series of the repeated invocations
MaxCalls == 2      \* invocations of calculate_portfolio_metrics per run
MaxClock == 1      \* latest value of the wall clock (datetime.utcnow)
MaxNodes == 5      \* largest value passed to the sanitizer, in nodes
MaxPasses == 2     \* times the sanitizer is applied in a row

\* ------------------------------------------------------------------------
\* Exact rational arithmetic
\* ------------------------------------------------------------------------
Abs(x) == IF x < 0 THEN -x ELSE x

RECURSIVE Gcd(_, _)
Gcd(a, b) == IF b = 0 THEN a ELSE Gcd(b, a % b)

Rat(n, d) ==
    LET g == Gcd(Abs(n), Abs(d))
        s == IF d < 0 THEN -1 ELSE 1
    IN  <<(s * n) \div g, (s * d) \div g>>

Zero == <<0, 1>>
One == <<1, 1>>

RAdd(a, b) ==
    LET g == Gcd(a[2], b[2])
    IN  Rat(a[1] * (b[2] \div g) + b[1] * (a[2] \div g), (a[2] \div g) * b[2])
RNeg(a) == <<-a[1], a[2]>>
RSub(a, b) == RAdd(a, RNeg(b))
RMul(a, b) ==
    LET g1 == Gcd(Abs(a[1]), b[2])
        g2 == Gcd(Abs(b[1]), a[2])
    IN  IF a[1] = 0 \/ b[1] = 0 THEN Zero
        ELSE <<(a[1] \div g1) * (b[1] \div g2), (a[2] \div g2) * (b[2] \div g1)>>
RInv(a) == IF a[1] < 0 THEN <<-a[2], -a[1]>> ELSE <<a[2], a[1]>>
RDiv(a, b) == RMul(a, RInv(b))
RLt(a, b) ==
    LET g == Gcd(a[2], b[2])
    IN  a[1] * (b[2] \div g) < b[1] * (a[2] \div g)
RLe(a, b) == ~RLt(b, a)
RAbs(a) == <<Abs(a[1]), a[2]>>
RSign(a) == IF a[1] < 0 THEN -1 ELSE IF a[1] = 0 THEN 0 ELSE 1
RInt(n) == <<n, 1>>

RECURSIVE RSum(_)
RSum(s) == IF s = <<>> THEN Zero ELSE RAdd(s[1], RSum(Tail(s)))

\* ------------------------------------------------------------------------
\* Floats
\* ------------------------------------------------------------------------
Fin(q) == [k |-> "fin", c |-> q, r |-> One]
Surd(q, s) == IF q = Zero \/ s = Zero THEN Fin(Zero) ELSE [k |-> "fin", c |-> q, r |-> s]
NaN == [k |-> "nan", c |-> Zero, r |-> One]
Inf(sgn) == [k |-> "inf", c |-> <<sgn, 1>>, r |-> One]
Str == [k |-> "str", c |-> Zero, r |-> One]
IntVal(n) == [k |-> "int", c |-> RInt(n), r |-> One]
BoolVal(b) == [k |-> "bool", c |-> IF b THEN One ELSE Zero, r |-> One]
NoneVal == [k |-> "none", c |-> Zero, r |-> One]
NaT == [k |-> "nat", c |-> Zero, r |-> One]
DatetimeVal(day) == [k |-> "datetime", c |-> RInt(day), r |-> One]

IsNaN(x) == x.k = "nan"
IsInf(x) == x.k = "inf"
IsFinite(x) == x.k = "fin"
FSign(x) == RSign(x.c)

\* IEEE-754 division of two finite rationals: x / 0 is +-inf, 0 / 0 is nan.
FDivRat(a, b) ==
    IF b # Zero THEN Fin(RDiv(a, b))
    ELSE IF a = Zero THEN NaN
    ELSE Inf(RSign(a))

\* IEEE-754 product of a finite rational and a float.
FMulRat(a, x) ==
    CASE x.k = "fin" -> Surd(RMul(a, x.c), x.r)
      [] x.k = "nan" -> NaN
      [] x.k = "inf" -> IF a = Zero THEN NaN ELSE Inf(RSign(a) * FSign(x))
      [] OTHER -> NaN

\* abs() forgotten: the signed value is stored
FAbs_signed(x) == x

\* builtin abs() on a float
FAbs(x) ==
    CASE x.k = "fin" -> [x EXCEPT !.c = RAbs(x.c)]
      [] x.k = "inf" -> Inf(1)
      [] OTHER -> x

\* x > 0 on floats (False for nan)
FGtZero(x) == (x.k = "fin" /\ RSign(x.c) > 0) \/ (x.k = "inf" /\ RSign(x.c) > 0)

\* ------------------------------------------------------------------------
\* safe_float (server.py:354-358)
\* ------------------------------------------------------------------------
\* no check at all: the value is passed through
safe_float_unchecked(value, default) == value

\* isinstance(x, float)
is_float(x) == x.k \in {"fin", "nan", "inf"}

\* pd.isna(x) on a scalar: nan, None, pd.NaT, pd.NA
pd_isna(x) == x.k \in {"nan", "none", "nat"}

\* np.isinf(x)
np_isinf(x) == x.k = "inf"

\* float(x) of a number
to_float(x) == IF x.k \in {"int", "bool"} THEN [x EXCEPT !.k = "fin"] ELSE x

\* pd.isna(value) or np.isinf(value) -> default, else float(value)
safe_float(value, default) ==
    IF pd_isna(value) \/ np_isinf(value) THEN default ELSE to_float(value)

\* ------------------------------------------------------------------------
\* clean_data_for_json (server.py:360-371)
\*
\* A Python value is a tree:
\*   [t |-> "scalar", v |-> <scalar>, keys |-> <<>>, kids |-> <<>>]
\*   [t |-> "list",   v |-> NoneVal,  keys |-> <<>>, kids |-> <<elements>>]
\*   [t |-> "dict",   v |-> NoneVal,  keys |-> <<keys>>, kids |-> <<values>>]
\* ------------------------------------------------------------------------
Scalar(x) == [t |-> "scalar", v |-> x, keys |-> <<>>, kids |-> <<>>]
List(elems) == [t |-> "list", v |-> NoneVal, keys |-> <<>>, kids |-> elems]
Dict(ks, vals) == [t |-> "dict", v |-> NoneVal, keys |-> ks, kids |-> vals]

\* a missing scalar is replaced by nan instead of None
clean_scalar_nan(data) ==
    IF is_float(data.v) THEN Scalar(safe_float(data.v, Fin(Zero)))
    ELSE IF pd_isna(data.v) THEN Scalar(NaN)
    ELSE data

\* every number, not only every float, goes through safe_float
clean_scalar_all_numbers(data) ==
    IF is_float(data.v) \/ data.v.k \in {"int", "bool"}
    THEN Scalar(safe_float(data.v, Fin(Zero)))
    ELSE IF pd_isna(data.v) THEN Scalar(NoneVal)
    ELSE data

\* lines 366-371: the branches for a value that is neither dict nor list
clean_scalar(data) ==
    IF is_float(data.v) THEN Scalar(safe_float(data.v, Fin(Zero)))
    ELSE IF pd_isna(data.v) THEN Scalar(NoneVal)
    ELSE data

\* only the top level and its direct children are cleaned
clean_data_for_json_shallow(data) ==
    IF data.t \in {"dict", "list"}
    THEN [data EXCEPT !.kids =
              [i \in 1..Len(data.kids) |->
                  IF data.kids[i].t = "scalar" THEN clean_scalar(data.kids[i])
                  ELSE data.kids[i]]]
    ELSE clean_scalar(data)

RECURSIVE clean_data_for_json(_)
clean_data_for_json(data) ==
    IF data.t = "dict"
    THEN [data EXCEPT !.kids =
              [i \in 1..Len(data.kids) |-> clean_data_for_json(data.kids[i])]]
    ELSE IF data.t = "list"
    THEN [data EXCEPT !.kids =
              [i \in 1..Len(data.kids) |-> clean_data_for_json(data.kids[i])]]
    ELSE clean_scalar(data)

\* ------------------------------------------------------------------------
\* numpy / pandas primitives used by calculate_portfolio_metrics,
\* on sequences of rationals
\* ------------------------------------------------------------------------
TradingDays == 252
PercentileQ == 5
RiskFreeRate == Rat(2, 100)

\* Series.pct_change(): element 1 has no predecessor (nan); element i is
\* v[i] / v[i-1] - 1 in IEEE arithmetic.  A non-numeric value raises.
pct_change(values) ==
    [i \in 1..Len(values) |->
        IF i = 1 THEN NaN
        ELSE LET q == FDivRat(values[i].c, values[i-1].c)
             IN  IF q.k = "fin" THEN Fin(RSub(q.c, One)) ELSE q]

\* Series.dropna(): the rows whose value is nan are removed, the others keep
\* their index label (inf is not a missing value).
dropna(series) ==
    SelectSeq([i \in 1..Len(series) |-> [label |-> i, val |-> series[i]]],
              LAMBDA row : ~IsNaN(row.val))

\* df['returns'] = rows: column assignment aligns on the index of df (labels
\* 1..n); a label with no row gets nan.
assign_column(n, rows) ==
    [i \in 1..n |->
        IF \E j \in 1..Len(rows) : rows[j].label = i
        THEN (CHOOSE row \in {rows[j] : j \in 1..Len(rows)} : row.label = i).val
        ELSE NaN]

\* only nan is removed, an infinite return stays
finite_only_keep_inf(series) ==
    LET kept == SelectSeq(series, LAMBDA x : ~IsNaN(x))
    IN  [i \in 1..Len(kept) |-> kept[i].c]

\* a nan or infinite return is replaced by 0.0 instead of being removed
finite_only_zeroed(series) ==
    [i \in 1..Len(series) |->
        IF IsNaN(series[i]) \/ IsInf(series[i]) THEN Zero ELSE series[i].c]

\* returns[~(np.isnan(returns) | np.isinf(returns))], as rationals
finite_only(series) ==
    LET kept == SelectSeq(series, LAMBDA x : ~(IsNaN(x) \/ IsInf(x)))
    IN  [i \in 1..Len(kept) |-> kept[i].c]

np_mean(xs) == RDiv(RSum(xs), RInt(Len(xs)))

\* mean of the squares, the mean not subtracted
np_var_raw(xs) ==
    RDiv(RSum([i \in 1..Len(xs) |-> RMul(xs[i], xs[i])]), RInt(Len(xs)))

\* population variance (np.std has ddof = 0); np.std is its square root
np_var(xs) ==
    LET m == np_mean(xs)
        sq == [i \in 1..Len(xs) |-> RMul(RSub(xs[i], m), RSub(xs[i], m))]
    IN  RDiv(RSum(sq), RInt(Len(xs)))

\* np.std(xs) * np.sqrt(252)
np_std_annualized(xs) == Surd(One, RMul(np_var(xs), RInt(TradingDays)))

RECURSIVE Insert(_, _)
Insert(x, s) ==
    IF s = <<>> THEN <<x>>
    ELSE IF RLe(x, s[1]) THEN <<x>> \o s
    ELSE <<s[1]>> \o Insert(x, Tail(s))

RECURSIVE Sort(_)
Sort(s) == IF s = <<>> THEN <<>> ELSE Insert(s[1], Sort(Tail(s)))

\* method 'lower': the sorted element at or below the position, without
\* interpolation
np_percentile_lower(xs, q) == Sort(xs)[(q * (Len(xs) - 1)) \div 100 + 1]

\* np.percentile(xs, q), method 'linear': position h = q/100 * (n-1) in the
\* sorted sample, linear interpolation between the two neighbours.
np_percentile(xs, q) ==
    LET s == Sort(xs)
        n == Len(xs)
        lo == (q * (n - 1)) \div 100
        frac == Rat(q * (n - 1) - 100 * lo, 100)
    IN  IF lo + 1 >= n THEN s[n]
        ELSE RAdd(s[lo + 1], RMul(frac, RSub(s[lo + 2], s[lo + 1])))

\* (1 + pd.Series(returns)).cumprod()
RECURSIVE cumprod(_, _)
cumprod(xs, acc) ==
    IF xs = <<>> THEN <<>>
    ELSE LET w == RMul(acc, RAdd(One, xs[1]))
         IN  <<w>> \o cumprod(Tail(xs), w)

\* the overall maximum instead of the running one
expanding_max_global(ws, i) ==
    [j \in 1..i |-> CHOOSE m \in {ws[k] : k \in 1..i} : \A k \in 1..i : RLe(ws[k], m)]

\* Series.expanding().max()
RECURSIVE expanding_max(_, _)
expanding_max(ws, i) ==
    IF i = 0 THEN <<>>
    ELSE LET prev == expanding_max(ws, i - 1)
         IN  IF i = 1 THEN <<ws[1]>>
             ELSE Append(prev, IF RLt(prev[i-1], ws[i]) THEN ws[i] ELSE prev[i-1])

\* (cumulative_returns - running_max) / running_max, element-wise
drawdown_series(ws, ms) ==
    [i \in 1..Len(ws) |-> FDivRat(RSub(ws[i], ms[i]), ms[i])]

\* a <= b for two floats that are not nan
FLe(a, b) ==
    IF a.k = "inf" THEN (FSign(a) < 0 \/ (b.k = "inf" /\ FSign(b) > 0))
    ELSE IF b.k = "inf" THEN FSign(b) > 0
    ELSE RLe(a.c, b.c)

\* Series.min(): skips nan; nan when nothing is left
series_min(fs) ==
    LET kept == SelectSeq(fs, LAMBDA x : ~IsNaN(x))
    IN  IF kept = <<>> THEN NaN
        ELSE CHOOSE m \in {kept[i] : i \in 1..Len(kept)} :
                 \A j \in 1..Len(kept) : FLe(m, kept[j])

\* Series.skew(): bias-corrected sample skewness
\*   n * sqrt(n-1) / (n-2) * m3 / m2^1.5, m2 and m3 sums of powers of the
\* deviations; 0 when m2 = 0; nan for fewer than 3 observations.
series_skew(xs) ==
    LET n == Len(xs)
        m == np_mean(xs)
        d == [i \in 1..n |-> RSub(xs[i], m)]
        m2 == RSum([i \in 1..n |-> RMul(d[i], d[i])])
        m3 == RSum([i \in 1..n |-> RMul(d[i], RMul(d[i], d[i]))])
    IN  IF n < 3 THEN NaN
        ELSE IF m2 = Zero THEN Fin(Zero)
        ELSE Surd(RDiv(RMul(RInt(n), m3), RMul(RInt(n - 2), RMul(m2, m2))),
                  RMul(RInt(n - 1), m2))

\* Series.kurtosis(): bias-corrected excess kurtosis
\*   n(n+1)(n-1) m4 / ((n-2)(n-3) m2^2) - 3 (n-1)^2 / ((n-2)(n-3));
\* nan for fewer than 4 observations; 0 when the denominator is 0.
series_kurtosis(xs) ==
    LET n == Len(xs)
        m == np_mean(xs)
        d == [i \in 1..n |-> RSub(xs[i], m)]
        d2 == [i \in 1..n |-> RMul(d[i], d[i])]
        m2 == RSum(d2)
        m4 == RSum([i \in 1..n |-> RMul(d2[i], d2[i])])
        adj == Rat(3 * (n - 1) * (n - 1), (n - 2) * (n - 3))
        ratio == RDiv(RDiv(m4, m2), m2)
    IN  IF n < 4 THEN NaN
        ELSE IF m2 = Zero THEN Fin(Zero)
        ELSE Fin(RSub(RMul(Rat(n * (n + 1) * (n - 1), (n - 2) * (n - 3)), ratio), adj))

\* ------------------------------------------------------------------------
\* calculate_portfolio_metrics (server.py:373-467)
\* ------------------------------------------------------------------------
MetricFields ==
    {"value_at_risk", "conditional_var", "max_drawdown", "sharpe_ratio",
     "sortino_ratio", "volatility", "skewness", "kurtosis"}

\* the keyword arguments of the three all-zero RiskMetrics(...) constructions
ZeroMetrics == [f \in MetricFields |-> Fin(Zero)]

\* the valuation column df['value']
value_column(historical_data) ==
    [i \in 1..Len(historical_data) |-> historical_data[i].value]

\* arithmetic on a non-numeric valuation raises TypeError inside pct_change
RaisesInside(historical_data) ==
    historical_data # <<>> /\
    \E i \in 1..Len(historical_data) : historical_data[i].value.k = "str"

\* lines 392-397: the cleaned return series
build_returns(historical_data) ==
    LET values == value_column(historical_data)
        column == assign_column(Len(values), dropna(pct_change(values)))
    IN  finite_only(column)

\* the risk-free rate is not subtracted
ratio_or_zero_no_rate(mean_return, vol) ==
    IF FGtZero(vol)
    THEN Surd(RDiv(mean_return.c, RMul(vol.c, vol.r)), vol.r)
    ELSE IntVal(0)

\* (mean_return - risk_free_rate) / vol if vol > 0 else 0
\* with vol = c * sqrt(r):  x / vol = x / (c * r) * sqrt(r)
ratio_or_zero(mean_return, vol) ==
    IF FGtZero(vol)
    THEN Surd(RDiv(RSub(mean_return.c, RiskFreeRate), RMul(vol.c, vol.r)),
              vol.r)
    ELSE IntVal(0)

\* the tail is taken strictly below the threshold
cvar_returns_strict(returns, percentile_5) ==
    SelectSeq(returns, LAMBDA x : RLt(x, percentile_5))

\* every return is taken into the tail
cvar_returns_all(returns, percentile_5) == returns

\* returns[returns <= percentile_5]
cvar_returns(returns, percentile_5) ==
    SelectSeq(returns, LAMBDA x : RLe(x, percentile_5))

\* a return of 0 counts as downside
downside_returns_inclusive(returns) == SelectSeq(returns, LAMBDA x : RLe(x, Zero))

\* every return counts as downside
downside_returns_all(returns) == returns

\* returns[returns < 0]
downside_returns(returns) == SelectSeq(returns, LAMBDA x : RLt(x, Zero))

\* lines 412-453: the statistics of at least two returns
normal_metrics(returns, total_value_usd) ==
    LET volatility == safe_float(np_std_annualized(returns), Fin(Zero))
        mean_return == safe_float(Fin(RMul(np_mean(returns), RInt(TradingDays))),
                                  Fin(Zero))
        var_95 == safe_float(FMulRat(np_percentile(returns, PercentileQ), total_value_usd),
                             Fin(Zero))
        percentile_5 == np_percentile(returns, PercentileQ)
        tail == cvar_returns(returns, percentile_5)
        cvar_95 == safe_float(
                       IF Len(tail) > 0
                       THEN FMulRat(np_mean(tail), total_value_usd)
                       ELSE Fin(Zero),
                       Fin(Zero))
        cumulative_returns == cumprod(returns, One)
        running_max == expanding_max(cumulative_returns, Len(cumulative_returns))
        drawdown == drawdown_series(cumulative_returns, running_max)
        max_drawdown == safe_float(series_min(drawdown), Fin(Zero))
        sharpe_ratio == safe_float(ratio_or_zero(mean_return, volatility), Fin(Zero))
        downside == downside_returns(returns)
        downside_volatility ==
            safe_float(IF Len(downside) > 0
                       THEN np_std_annualized(downside)
                       ELSE IntVal(0),
                       Fin(Zero))
        sortino_ratio == safe_float(ratio_or_zero(mean_return, downside_volatility),
                                    Fin(Zero))
        skewness == safe_float(series_skew(returns), Fin(Zero))
        kurtosis == safe_float(series_kurtosis(returns), Fin(Zero))
    IN  [value_at_risk |-> FAbs(var_95),
         conditional_var |-> FAbs(cvar_95),
         max_drawdown |-> FAbs(max_drawdown),
         sharpe_ratio |-> sharpe_ratio,
         sortino_ratio |-> sortino_ratio,
         volatility |-> volatility,
         skewness |-> skewness,
         kurtosis |-> kurtosis]

\* threshold off by one
insufficient_one(returns) == Len(returns) < 1

\* line 399: len(returns) < 2
insufficient(returns) == Len(returns) < 2

\* the body of the try block: either an exception or the keyword arguments
\* of the RiskMetrics that is returned
try_body(portfolio, historical_data) ==
    IF historical_data = <<>> THEN [raised |-> FALSE, fields |-> ZeroMetrics]
    ELSE IF RaisesInside(historical_data) THEN [raised |-> TRUE, fields |-> ZeroMetrics]
    ELSE LET returns == build_returns(historical_data)
         IN  IF insufficient(returns) THEN [raised |-> FALSE, fields |-> ZeroMetrics]
             ELSE [raised |-> FALSE,
                   fields |-> normal_metrics(returns, portfolio.total_value_usd)]

\* the record's own id stored as portfolio_id
RiskMetrics_own_id(portfolio_id, fields, uuid4, utcnow) ==
    [id |-> uuid4,
     portfolio_id |-> uuid4,
     value_at_risk |-> fields.value_at_risk,
     conditional_var |-> fields.conditional_var,
     max_drawdown |-> fields.max_drawdown,
     sharpe_ratio |-> fields.sharpe_ratio,
     sortino_ratio |-> fields.sortino_ratio,
     volatility |-> fields.volatility,
     skewness |-> fields.skewness,
     kurtosis |-> fields.kurtosis,
     correlation_matrix |-> <<>>,
     timestamp |-> utcnow]

\* RiskMetrics(portfolio_id = ..., **fields): the pydantic model fills id,
\* correlation_matrix and timestamp from its defaults (server.py:87-99).
RiskMetrics(portfolio_id, fields, uuid4, utcnow) ==
    [id |-> uuid4,
     portfolio_id |-> portfolio_id,
     value_at_risk |-> fields.value_at_risk,
     conditional_var |-> fields.conditional_var,
     max_drawdown |-> fields.max_drawdown,
     sharpe_ratio |-> fields.sharpe_ratio,
     sortino_ratio |-> fields.sortino_ratio,
     volatility |-> fields.volatility,
     skewness |-> fields.skewness,
     kurtosis |-> fields.kurtosis,
     correlation_matrix |-> <<>>,
     timestamp |-> utcnow]

\* the handler logs and re-raises
except_handler_reraise(portfolio, uuid4, utcnow) ==
    [outcome |-> "raise", logged |-> 1,
     record |-> RiskMetrics(portfolio.id, ZeroMetrics, uuid4, utcnow)]

\* the fallback record carries no portfolio id
except_handler_anonymous(portfolio, uuid4, utcnow) ==
    [outcome |-> "return", logged |-> 1,
     record |-> RiskMetrics("", ZeroMetrics, uuid4, utcnow)]

\* except Exception: log the error and return the all-zero record
except_handler(portfolio, uuid4, utcnow) ==
    [outcome |-> "return", logged |-> 1,
     record |-> RiskMetrics(portfolio.id, ZeroMetrics, uuid4, utcnow)]

\* uuid4 / utcnow: the values uuid.uuid4() and datetime.utcnow() give during
\* this call
calculate_portfolio_metrics(portfolio, historical_data, uuid4, utcnow) ==
    LET body == try_body(portfolio, historical_data)
    IN  IF body.raised THEN except_handler(portfolio, uuid4, utcnow)
        ELSE [outcome |-> "return", logged |-> 0,
              record |-> RiskMetrics(portfolio.id, body.fields, uuid4, utcnow)]

\* ------------------------------------------------------------------------
\* State: one portfolio and its valuation series, and a caller that invokes
\* calculate_portfolio_metrics on them repeatedly
\* ------------------------------------------------------------------------
VARIABLES
    portfolio,        \* the Portfolio argument: [id, total_value_usd]
    historical_data,  \* the List[Dict] argument: sequence of [date, value]
    calls_left,       \* invocations the caller still makes
    now,              \* wall clock read by datetime.utcnow
    uuid_next,        \* next value of uuid.uuid4 (never repeats)
    results,          \* records returned to the caller, in call order
    escaped,          \* number of exceptions that reached the caller
    error_log,        \* number of logging.error lines written
    data,             \* the value a caller is about to sanitize
    default,          \* the replacement value that caller wants
    passes,           \* passes[1] = clean_data_for_json(data),
                      \* passes[2] = clean_data_for_json(passes[1])
    sf_out,           \* <<safe_float(data, default)>> once it was called
    rate_wanted,      \* the annualized risk-free rate the caller wants used
    calls,            \* concurrent invocations: caller -> its frame (arguments,
                      \* position, locals, returned record)
    db,               \* the store: db.portfolios and db.risk_metrics
    responses,        \* HTTP responses sent so far, in order
    cache_store,      \* the dict cache_store: key -> (data, expiry)
    cache_sets,       \* key -> the arguments and the time of its latest cache_set
    cache_got,        \* <<the call cache_get that has just returned>>
    alerts,           \* the collection db.alerts, in insertion order
    monitor,          \* the task monitor_portfolios: position, pass, locals
    processed         \* the documents the monitor went through, in order

metricVars == <<portfolio, historical_data, calls_left, now, uuid_next, results,
                escaped, error_log>>
cleanVars == <<data, default, passes, sf_out>>
serviceVars == <<rate_wanted, calls, db, responses>>
backgroundVars == <<cache_store, cache_sets, cache_got, alerts, monitor, processed>>
vars == <<metricVars, cleanVars, serviceVars, backgroundVars>>

\* the Portfolio arguments: positive, negative and infinite total value
Portfolios ==
    {[id |-> "p1", total_value_usd |-> Fin(RInt(10))],
     [id |-> "p2", total_value_usd |-> Fin(RInt(-10))],
     [id |-> "p2", total_value_usd |-> Inf(1)]}
Valuations == {Fin(RInt(0)), Fin(RInt(1)), Fin(RInt(2)), Fin(RInt(4)),
               Fin(RInt(-1)), Str}

\* valuations of the longer series
CoreValuations == {Fin(RInt(1)), Fin(RInt(2)), Fin(RInt(-1))}

SeriesOver(valuations, lens) ==
    UNION {{[i \in 1..len |-> [date |-> i, value |-> vs[i]]] :
            vs \in [1..len -> valuations]} : len \in lens}

\* a series that passes through a zero valuation
ThroughZero == <<100, 0, 50>>

SeriesOf(vs) == [i \in 1..Len(vs) |-> [date |-> i, value |-> Fin(RInt(vs[i]))]]

ScenarioSeries == {SeriesOf(ThroughZero)}

\* every series of at most MaxLen valuations, the series of MaxLen + 1 core
\* valuations, and the scenario series
AllSeries == SeriesOver(Valuations, 0..MaxLen)
                 \cup SeriesOver(CoreValuations, {MaxLen + 1})
                 \cup ScenarioSeries

\* nothing to sanitize
CleanIdle ==
    /\ data = Scalar(NoneVal)
    /\ default = Fin(Zero)
    /\ passes = <<>>
    /\ sf_out = <<>>

\* no concurrent invocation, an empty store, no request served
ServiceIdle ==
    /\ calls = <<>>
    /\ db = [portfolios |-> {}, risk_metrics |-> <<>>]
    /\ responses = <<>>

\* an empty cache, no alert, the monitor not started
BackgroundIdle ==
    /\ cache_store = <<>>
    /\ cache_sets = <<>>
    /\ cache_got = <<>>
    /\ alerts = <<>>
    /\ monitor = [pc |-> "off", pass |-> 0, portfolios |-> <<>>, next |-> 0]
    /\ processed = <<>>

InitOn(portfolios, series, ncalls) ==
    /\ portfolio \in portfolios
    /\ historical_data \in series
    /\ calls_left = ncalls
    /\ now = 0
    /\ uuid_next = 1
    /\ results = <<>>
    /\ escaped = 0
    /\ error_log = 0
    /\ CleanIdle
    /\ BackgroundIdle
    /\ ServiceIdle

InitWith(series, ncalls) == InitOn(Portfolios, series, ncalls)

\* one call of calculate_portfolio_metrics(portfolio, historical_data)
Invoke ==
    /\ calls_left > 0
    /\ LET r == calculate_portfolio_metrics(portfolio, historical_data, uuid_next, now)
       IN  /\ results' = IF r.outcome = "return" THEN Append(results, r.record)
                         ELSE results
           /\ escaped' = IF r.outcome = "return" THEN escaped ELSE escaped + 1
           /\ error_log' = error_log + r.logged
    /\ calls_left' = calls_left - 1
    /\ uuid_next' = uuid_next + 1
    /\ UNCHANGED <<backgroundVars, portfolio, historical_data, now, cleanVars, serviceVars>>

\* time passes between two calls
Tick ==
    /\ now < MaxClock
    /\ now' = now + 1
    /\ UNCHANGED <<backgroundVars, portfolio, historical_data, calls_left, uuid_next, results,
                   escaped, error_log, cleanVars, serviceVars>>

\* Spec: one invocation on every input
Init == InitWith(AllSeries, 1) /\ rate_wanted = RiskFreeRate
Next == Invoke
Spec == Init /\ [][Next]_vars

\* SpecRepeat: the same input passed MaxCalls times, at different times
\* the rates a caller may want: the 2 % of the code, and 5 %
SuppliedRates == {RiskFreeRate, Rat(5, 100)}

InitRepeat ==
    /\ InitWith(SeriesOver(CoreValuations \cup {Str}, 0..RepeatLen), MaxCalls)
    /\ rate_wanted \in SuppliedRates
NextRepeat == Invoke \/ Tick
SpecRepeat == InitRepeat /\ [][NextRepeat]_vars

\* ------------------------------------------------------------------------
\* Concurrent invocations of calculate_portfolio_metrics: every caller has
\* its own frame (arguments and locals); the steps of the frames interleave.
\* Outside the frames the function touches uuid.uuid4, datetime.utcnow and
\* the log.
\* ------------------------------------------------------------------------
Callers == {"a", "b"}

CallerPortfolio(c) ==
    IF c = "a" THEN [id |-> "p1", total_value_usd |-> Fin(RInt(10))]
    ELSE [id |-> "p2", total_value_usd |-> Fin(RInt(-10))]

ConcurrentSeries ==
    SeriesOver({Fin(RInt(1)), Fin(RInt(2))}, 0..RepeatLen)
        \cup {<<[date |-> 1, value |-> Str]>>}

\* a frame at the entry of the function
Frame(p, h) ==
    [portfolio |-> p, historical_data |-> h, pc |-> "try", returns |-> <<>>,
     fields |-> ZeroMetrics, record |-> <<>>]

InitConcurrent ==
    /\ portfolio = CallerPortfolio("a")
    /\ historical_data = <<>>
    /\ calls_left = 0
    /\ now = 0
    /\ uuid_next = 1
    /\ results = <<>>
    /\ escaped = 0
    /\ error_log = 0
    /\ CleanIdle
    /\ BackgroundIdle
    /\ rate_wanted = RiskFreeRate
    /\ calls \in {[c \in Callers |-> Frame(CallerPortfolio(c), hs[c])] :
                      hs \in [Callers -> ConcurrentSeries]}
    /\ db = [portfolios |-> {}, risk_metrics |-> <<>>]
    /\ responses = <<>>

\* a frame reads the module-level value another invocation left behind
local_shared(frames, c, name) == frames["a"][name]

\* the value of a local variable or argument of caller c's invocation
local(frames, c, name) == frames[c][name]

\* lines 375-397: the empty-series check and the return series
EnterTry(c) ==
    /\ calls[c].pc = "try"
    /\ LET h == local(calls, c, "historical_data")
       IN  calls' =
             IF h = <<>> THEN [calls EXCEPT ![c].pc = "construct"]
             ELSE IF RaisesInside(h) THEN [calls EXCEPT ![c].pc = "except"]
             ELSE [calls EXCEPT ![c].returns = build_returns(h),
                                ![c].pc = "statistics"]
    /\ UNCHANGED <<backgroundVars, metricVars, cleanVars, rate_wanted, db, responses>>

\* lines 399-441: the length check and the statistics
Statistics(c) ==
    /\ calls[c].pc = "statistics"
    /\ LET returns == local(calls, c, "returns")
           total == local(calls, c, "portfolio").total_value_usd
       IN  calls' = [calls EXCEPT
                       ![c].fields = IF insufficient(returns) THEN ZeroMetrics
                                     ELSE normal_metrics(returns, total),
                       ![c].pc = "construct"]
    /\ UNCHANGED <<backgroundVars, metricVars, cleanVars, rate_wanted, db, responses>>

\* lines 455-456: the except clause logs the error
ExceptClause(c) ==
    /\ calls[c].pc = "except"
    /\ error_log' = error_log + 1
    /\ calls' = [calls EXCEPT ![c].fields = ZeroMetrics, ![c].pc = "construct"]
    /\ UNCHANGED <<backgroundVars, portfolio, historical_data, calls_left, now, uuid_next, results,
                   escaped, cleanVars, rate_wanted, db, responses>>

\* return RiskMetrics(portfolio_id=portfolio.id, ...): the record is built,
\* with a fresh uuid and the current time, and returned
Construct(c) ==
    /\ calls[c].pc = "construct"
    /\ calls' = [calls EXCEPT
                    ![c].record = <<RiskMetrics(local(calls, c, "portfolio").id,
                                                local(calls, c, "fields"),
                                                uuid_next, now)>>,
                    ![c].pc = "returned"]
    /\ uuid_next' = uuid_next + 1
    /\ UNCHANGED <<backgroundVars, portfolio, historical_data, calls_left, now, results, escaped,
                   error_log, cleanVars, rate_wanted, db, responses>>

NextConcurrent ==
    \/ \E c \in Callers : EnterTry(c) \/ Statistics(c) \/ ExceptClause(c) \/ Construct(c)
    \/ Tick
SpecConcurrent == InitConcurrent /\ [][NextConcurrent]_vars

\* ------------------------------------------------------------------------
\* The two portfolio endpoints (server.py:543-590) over the store
\* ------------------------------------------------------------------------
MaxRequests == 2   \* requests served per run
MaxPeriod == 2     \* largest time_period of a risk-analysis request

\* the documents create_portfolio may have saved (server.py:535)
StoredPortfolios == {q \in Portfolios : IsFinite(q.total_value_usd)}
RequestIds == {"p1", "p2", "p3"}

\* db.portfolios.find_one({"id": portfolio_id}): <<document>> or <<>> (None)
find_one(collection, portfolio_id) ==
    IF \E doc \in collection : doc.id = portfolio_id
    THEN <<CHOOSE doc \in collection : doc.id = portfolio_id>>
    ELSE <<>>

HTTPException(status_code, detail) ==
    [status_code |-> status_code, detail |-> detail]

\* str(e) of a caught exception, kept symbolic
StrOf(e) == <<"str", e.status_code, e.detail>>

\* except Exception as e: HTTPException is a subclass of Exception, so the
\* clause catches the 404 raised in the try block, logs it and raises
\* HTTPException(500, str(e)) instead
except_clause(e) ==
    [raised |-> HTTPException(500, StrOf(e)), logged |-> 1]

\* the response FastAPI sends for an HTTPException that leaves the handler
error_response(endpoint, portfolio_id, e) ==
    [endpoint |-> endpoint, portfolio_id |-> portfolio_id,
     status_code |-> e.status_code, detail |-> e.detail]

ok_response(endpoint, portfolio_id) ==
    [endpoint |-> endpoint, portfolio_id |-> portfolio_id,
     status_code |-> 200, detail |-> ""]

InitApi ==
    /\ portfolio = CallerPortfolio("a")
    /\ historical_data = <<>>
    /\ calls_left = 0
    /\ now = 0
    /\ uuid_next = 1
    /\ results = <<>>
    /\ escaped = 0
    /\ error_log = 0
    /\ CleanIdle
    /\ BackgroundIdle
    /\ rate_wanted = RiskFreeRate
    /\ calls = <<>>
    /\ db \in {[portfolios |-> docs, risk_metrics |-> <<>>] :
                   docs \in SUBSET StoredPortfolios}
    /\ responses = <<>>

\* GET /portfolio/{portfolio_id}
get_portfolio(portfolio_id) ==
    /\ Len(responses) < MaxRequests
    /\ LET found == find_one(db.portfolios, portfolio_id)
       IN  IF found = <<>>
           THEN LET out == except_clause(HTTPException(404, "Portfolio not found"))
                IN  /\ error_log' = error_log + out.logged
                    /\ responses' = Append(responses,
                                           error_response("get_portfolio", portfolio_id,
                                                          out.raised))
           ELSE /\ error_log' = error_log
                /\ responses' = Append(responses, ok_response("get_portfolio", portfolio_id))
    /\ UNCHANGED <<backgroundVars, portfolio, historical_data, calls_left, now, uuid_next, results,
                   escaped, cleanVars, rate_wanted, calls, db>>

\* POST /portfolio/{portfolio_id}/risk-analysis with a time_period; the
\* simulated valuations are random (np.random.normal)
analyze_portfolio_risk(portfolio_id, time_period) ==
    /\ Len(responses) < MaxRequests
    /\ LET found == find_one(db.portfolios, portfolio_id)
       IN  IF found = <<>>
           THEN LET out == except_clause(HTTPException(404, "Portfolio not found"))
                IN  /\ error_log' = error_log + out.logged
                    /\ responses' = Append(responses,
                                           error_response("analyze_portfolio_risk",
                                                          portfolio_id, out.raised))
                    /\ UNCHANGED <<db, uuid_next>>
           ELSE \E simulated \in SeriesOver({Fin(RInt(1)), Fin(RInt(2))}, {time_period}) :
                    LET r == calculate_portfolio_metrics(found[1], simulated,
                                                         uuid_next, now)
                    IN  /\ error_log' = error_log + r.logged
                        /\ db' = [db EXCEPT !.risk_metrics = Append(@, r.record)]
                        /\ uuid_next' = uuid_next + 1
                        /\ responses' = Append(responses,
                                               ok_response("analyze_portfolio_risk",
                                                           portfolio_id))
    /\ UNCHANGED <<backgroundVars, portfolio, historical_data, calls_left, now, results, escaped,
                   cleanVars, rate_wanted, calls>>

NextApi ==
    \/ \E portfolio_id \in RequestIds : get_portfolio(portfolio_id)
    \/ \E portfolio_id \in RequestIds : \E time_period \in 0..MaxPeriod :
           analyze_portfolio_risk(portfolio_id, time_period)
    \/ Tick
SpecApi == InitApi /\ [][NextApi]_vars

\* ------------------------------------------------------------------------
\* A caller of the sanitizer: it holds a value, built up to MaxNodes nodes,
\* and passes it to clean_data_for_json, then passes the result again; a
\* float it passes to safe_float with the default it wants.
\* ------------------------------------------------------------------------
LeafScalars ==
    {Fin(Rat(3, 2)), Fin(Zero), NaN, Inf(1), Inf(-1), IntVal(7), Str, NoneVal,
     NaT, BoolVal(TRUE), DatetimeVal(1)}
SiblingScalars == {Fin(Rat(3, 2)), NaN, NaT, Str}
Defaults == {Fin(Zero), Fin(RInt(-1))}

RECURSIVE NodeCount(_)
NodeCount(tree) ==
    1 + RSum([i \in 1..Len(tree.kids) |-> RInt(NodeCount(tree.kids[i]))])[1]

InitClean ==
    /\ portfolio = [id |-> "p1", total_value_usd |-> Fin(Zero)]
    /\ historical_data = <<>>
    /\ calls_left = 0
    /\ now = 0
    /\ uuid_next = 1
    /\ results = <<>>
    /\ escaped = 0
    /\ error_log = 0
    /\ data \in {Scalar(x) : x \in LeafScalars} \cup {List(<<>>), Dict(<<>>, <<>>)}
    /\ default \in Defaults
    /\ passes = <<>>
    /\ sf_out = <<>>
    /\ rate_wanted = RiskFreeRate
    /\ ServiceIdle
    /\ BackgroundIdle

Building == passes = <<>> /\ sf_out = <<>>

\* data = [data], [sibling, data] or [data, sibling]
WrapList ==
    /\ Building
    /\ \/ NodeCount(data) + 1 <= MaxNodes /\ data' = List(<<data>>)
       \/ /\ NodeCount(data) + 2 <= MaxNodes
          /\ \E x \in SiblingScalars :
                data' \in {List(<<Scalar(x), data>>), List(<<data, Scalar(x)>>)}
    /\ UNCHANGED <<backgroundVars, metricVars, default, passes, sf_out, serviceVars>>

\* data = {"a": data}, {"a": sibling, "b": data} or {"a": data, "b": sibling}
WrapDict ==
    /\ Building
    /\ \/ NodeCount(data) + 1 <= MaxNodes /\ data' = Dict(<<"a">>, <<data>>)
       \/ /\ NodeCount(data) + 2 <= MaxNodes
          /\ \E x \in SiblingScalars :
                data' \in {Dict(<<"a", "b">>, <<Scalar(x), data>>),
                           Dict(<<"a", "b">>, <<data, Scalar(x)>>)}
    /\ UNCHANGED <<backgroundVars, metricVars, default, passes, sf_out, serviceVars>>

\* clean_data_for_json(data), then clean_data_for_json of the result
Clean ==
    /\ sf_out = <<>>
    /\ Len(passes) < MaxPasses
    /\ passes' = Append(passes,
                        clean_data_for_json(IF passes = <<>> THEN data
                                            ELSE passes[Len(passes)]))
    /\ UNCHANGED <<backgroundVars, metricVars, data, default, sf_out, serviceVars>>

\* safe_float(data, default) on a float
SafeFloat ==
    /\ Building
    /\ data.t = "scalar"
    /\ is_float(data.v)
    /\ sf_out' = <<safe_float(data.v, default)>>
    /\ UNCHANGED <<backgroundVars, metricVars, data, default, passes, serviceVars>>

NextClean == WrapList \/ WrapDict \/ Clean \/ SafeFloat
SpecClean == InitClean /\ [][NextClean]_vars

\* ------------------------------------------------------------------------
\* Properties of calculate_portfolio_metrics
\* ------------------------------------------------------------------------
RecordFields ==
    MetricFields \cup {"id", "portfolio_id", "correlation_matrix", "timestamp"}

FGeZero(x) == (x.k = "fin" /\ RSign(x.c) >= 0) \/ (x.k = "inf" /\ RSign(x.c) > 0)
AllZero(rec) == \A f \in MetricFields : rec[f] = Fin(Zero)

\* the call took the normal path (lines 412-453)
NormalPath ==
    /\ historical_data # <<>>
    /\ ~RaisesInside(historical_data)
    /\ Len(build_returns(historical_data)) >= 2

Returns == build_returns(historical_data)

\* C1: each of the eight numeric fields of every returned record is a finite
\* number (not nan, not +inf, not -inf), whatever the valuations and the
\* total value.
C1_AllFieldsFinite ==
    \A i \in 1..Len(results) : \A f \in MetricFields : IsFinite(results[i][f])

\* a record computed on the normal path from a non-finite total value
C1_Witness ==
    /\ results # <<>>
    /\ NormalPath
    /\ portfolio.total_value_usd = Inf(1)
    /\ \E i \in 1..Len(historical_data) : historical_data[i].value = Fin(Zero)

\* C2: when fewer than two finite returns remain (in particular for every
\* series of length 0, 1 or 2) the eight numeric fields are all exactly 0.
C2_InsufficientDataAllZero ==
    \A i \in 1..Len(results) :
        (\/ Len(historical_data) <= 2
         \/ (~RaisesInside(historical_data) /\ Len(Returns) < 2))
            => AllZero(results[i])

\* three valuations of which only one return survives the filter
C2_Witness ==
    /\ results # <<>>
    /\ Len(historical_data) = 3
    /\ ~RaisesInside(historical_data)
    /\ Len(Returns) = 1
    /\ Returns[1] # Zero

\* C3: value_at_risk, conditional_var, max_drawdown and volatility are >= 0
\* for every input, a negative total value included.
C3_LossMagnitudesNonNegative ==
    \A i \in 1..Len(results) :
        \A f \in {"value_at_risk", "conditional_var", "max_drawdown", "volatility"} :
            FGeZero(results[i][f])

\* a normal-path record for a negative total value with a non-zero VaR, CVaR
\* and drawdown
C3_Witness ==
    /\ results # <<>>
    /\ NormalPath
    /\ RSign(portfolio.total_value_usd.c) < 0
    /\ results[1].value_at_risk # Fin(Zero)
    /\ results[1].conditional_var # Fin(Zero)
    /\ results[1].max_drawdown # Fin(Zero)

\* C4: no exception reaches the caller: every invocation made so far has
\* returned a full record, and when an internal step raised the record is
\* all-zero.
C4_NeverRaises ==
    /\ escaped = 0
    /\ Len(results) = uuid_next - 1
    /\ \A i \in 1..Len(results) :
          /\ DOMAIN results[i] = RecordFields
          /\ (RaisesInside(historical_data) => AllZero(results[i]))

\* a call whose internal step raised and was caught
C4_Witness ==
    /\ results # <<>>
    /\ RaisesInside(historical_data)
    /\ error_log > 0

ConstantReturns ==
    /\ NormalPath
    /\ \A i \in 1..Len(Returns) : Returns[i] = Returns[1]

PositiveReturns ==
    /\ NormalPath
    /\ \A i \in 1..Len(Returns) : RLt(Zero, Returns[i])

C7_PositiveReturnsNoDownside ==
    \A i \in 1..Len(results) :
        PositiveReturns =>
            /\ results[i].sortino_ratio = Fin(Zero)
            /\ results[i].max_drawdown = Fin(Zero)

\* a record for a strictly positive return series
C7_Witness ==
    /\ results # <<>>
    /\ PositiveReturns

\* positions whose return divides by a zero valuation
ZeroDivisions ==
    {i \in 2..Len(historical_data) : historical_data[i-1].value = Fin(Zero)}

\* C11: in a series that passes through 0, every return whose computation
\* divides by the zero valuation is removed from the return series; for
\* [100, 0, 50] at most one return remains and the record is all-zero.
C11_ZeroDivisionRemoved ==
    \A i \in 1..Len(results) :
        (~RaisesInside(historical_data) /\ ZeroDivisions # {}) =>
            /\ Len(Returns) = Len(historical_data) - 1 - Cardinality(ZeroDivisions)
            /\ (historical_data = SeriesOf(ThroughZero) =>
                    /\ Len(Returns) <= 1
                    /\ AllZero(results[i]))

\* the record returned for [100, 0, 50]
C11_Witness ==
    /\ results # <<>>
    /\ historical_data = SeriesOf(ThroughZero)
    /\ Returns = <<RInt(-1)>>

\* v_i / v_{i-1} - 1 for the positions i of the set, in list order
PairReturns(positions) ==
    LET n == Len(historical_data)
        idx == SelectSeq([i \in 1..n |-> i], LAMBDA i : i \in positions)
    IN  [k \in 1..Len(idx) |->
            RSub(RDiv(historical_data[idx[k]].value.c,
                      historical_data[idx[k] - 1].value.c), One)]

\* positions whose return is derived from two positive valuations
PositivePairs ==
    {i \in 2..Len(historical_data) :
        /\ RLt(Zero, historical_data[i-1].value.c)
        /\ RLt(Zero, historical_data[i].value.c)}

\* C12 as stated: every return derived from a negative or zero valuation is
\* removed from the return series before any statistic is computed: the
\* statistics are computed over the returns between two positive valuations
\* only, and the record is all-zero when fewer than two of them exist.
C12_MalformedReturnsDiscarded ==
    \A i \in 1..Len(results) :
        ~RaisesInside(historical_data) =>
            /\ Returns = PairReturns(PositivePairs)
            /\ (Cardinality(PositivePairs) < 2 => AllZero(results[i]))

\* C13: on every path (empty series, fewer than two returns, normal
\* computation, internal exception) the portfolio_id of the returned record
\* is the id of the portfolio passed in.
C13_PortfolioIdCopied ==
    \A i \in 1..Len(results) : results[i].portfolio_id = portfolio.id

\* the fallback record of a call whose internal step raised, for the second
\* portfolio
C13_Witness ==
    /\ results # <<>>
    /\ RaisesInside(historical_data)
    /\ portfolio.id = "p2"
    /\ results[1].portfolio_id = "p2"

\* (annualized mean return - rate) / vol when vol > 0, else 0
RatioAtRate(returns, vol, rate) ==
    IF FGtZero(vol)
    THEN Surd(RDiv(RSub(RMul(np_mean(returns), RInt(TradingDays)), rate),
                   RMul(vol.c, vol.r)),
              vol.r)
    ELSE Fin(Zero)

\* annualized standard deviation of the negative returns, 0 without any
DownsideVolatility(returns) ==
    LET downside == SelectSeq(returns, LAMBDA x : RLt(x, Zero))
    IN  IF downside = <<>> THEN Fin(Zero) ELSE np_std_annualized(downside)

\* C14 as stated: the risk-free rate is an input the caller can override
\* (default 0.02): sharpe_ratio and sortino_ratio are computed with the rate
\* the caller wants in their numerator.
C14_SuppliedRateUsed ==
    \A i \in 1..Len(results) :
        NormalPath =>
            /\ results[i].sharpe_ratio =
                   RatioAtRate(Returns, results[i].volatility, rate_wanted)
            /\ results[i].sortino_ratio =
                   RatioAtRate(Returns, DownsideVolatility(Returns), rate_wanted)

Absent(response) == \A doc \in db.portfolios : doc.id # response.portfolio_id

\* C16 as stated: when no portfolio with the requested id exists, both
\* endpoints respond with status 404 and detail "Portfolio not found", and
\* the risk-analysis endpoint persists no risk-metrics record.
C16_NotFoundIs404 ==
    /\ \A i \in 1..Len(responses) :
          Absent(responses[i]) =>
              /\ responses[i].status_code = 404
              /\ responses[i].detail = "Portfolio not found"
    /\ Len(db.risk_metrics) =
          Cardinality({i \in 1..Len(responses) :
                          /\ responses[i].endpoint = "analyze_portfolio_risk"
                          /\ ~Absent(responses[i])})

\* positions whose return v_i / v_{i-1} - 1 is a finite number
FinitePairs == (2..Len(historical_data)) \ ZeroDivisions

RECURSIVE DeepestDrawdown(_, _, _, _)
\* the minimum of (W_i - M_i) / M_i over the returns still to come, for the
\* wealth W and the running maximum M reached so far
DeepestDrawdown(returns, wealth, peak, deepest) ==
    IF returns = <<>> THEN deepest
    ELSE LET w == RMul(wealth, RAdd(One, returns[1]))
             m == IF RLt(peak, w) THEN w ELSE peak
             d == RDiv(RSub(w, m), m)
         IN  DeepestDrawdown(Tail(returns), w, m, IF RLt(d, deepest) THEN d ELSE deepest)

\* C19 as stated: max_drawdown = | min_i (W_i - M_i) / M_i | for the wealth
\* index W that starts at 1.0 and the running maximum M of it, the starting
\* value 1.0 included, so that a series that only declines reports the whole
\* decline from the starting wealth.
C19_DrawdownFromStart ==
    \A i \in 1..Len(results) :
        NormalPath =>
            results[i].max_drawdown =
                Fin(RAbs(DeepestDrawdown(Returns, One, One, Zero)))

\* C20 as stated: volatility^2 = 252 * sum((r_i - mean)^2) / (n - 1), the
\* annualized sample standard deviation of the n >= 2 returns.
C20_SampleStandardDeviation ==
    \A i \in 1..Len(results) :
        NormalPath =>
            LET n == Len(Returns)
                mean == RDiv(RSum(Returns), RInt(n))
                squares == [k \in 1..n |-> RMul(RSub(Returns[k], mean),
                                                 RSub(Returns[k], mean))]
            IN  results[i].volatility =
                    Surd(One, RDiv(RMul(RInt(TradingDays), RSum(squares)), RInt(n - 1)))

\* ------------------------------------------------------------------------
\* Properties of the single statistics
\* ------------------------------------------------------------------------
\* the numerator of both ratios: 252 * mean(returns) - risk_free_rate
ExcessReturn(rs) == RSub(RMul(RInt(TradingDays), np_mean(rs)), RiskFreeRate)

\* x * y = q for two finite floats x = c * sqrt(r) and y = d * sqrt(r)
TimesIs(x, y, q) ==
    /\ IsFinite(x) /\ IsFinite(y)
    /\ IF q = Zero THEN x.c = Zero \/ y.c = Zero
       ELSE x.r = y.r /\ RMul(RMul(x.c, y.c), y.r) = q

\* the strictly negative returns
NegativeReturns(rs) == SelectSeq(rs, LAMBDA x : RLt(x, Zero))

\* C21: for n >= 2 returns, sharpe_ratio = (252 * mean(returns) -
\* risk_free_rate) / volatility when the annualized volatility is > 0, and
\* sharpe_ratio is exactly 0.0 when the annualized volatility is zero.
C21_SharpeRatio ==
    \A i \in 1..Len(results) :
        NormalPath =>
            IF FGtZero(results[i].volatility)
            THEN TimesIs(results[i].sharpe_ratio, results[i].volatility,
                         ExcessReturn(Returns))
            ELSE /\ results[i].volatility = Fin(Zero)
                 /\ results[i].sharpe_ratio = Fin(Zero)

\* a negative, irrational Sharpe ratio
C21_Witness ==
    /\ results # <<>>
    /\ NormalPath
    /\ FGtZero(results[1].volatility)
    /\ results[1].sharpe_ratio.r # One
    /\ RLt(results[1].sharpe_ratio.c, Zero)

\* C22: for n >= 2 returns, sortino_ratio * d = 252 * mean(returns) -
\* risk_free_rate, d the annualized standard deviation of the returns that
\* are strictly less than zero (when d > 0); a return equal to 0 is not
\* counted as downside; sortino_ratio is 0.0 when no return is negative.
C22_SortinoRatio ==
    \A i \in 1..Len(results) :
        NormalPath =>
            LET rs == Returns
                d == DownsideVolatility(rs)
            IN  /\ FGtZero(d) =>
                       TimesIs(results[i].sortino_ratio, d, ExcessReturn(rs))
                /\ NegativeReturns(rs) = <<>> => results[i].sortino_ratio = Fin(Zero)

\* two different negative returns and a return equal to 0
C22_Witness ==
    /\ results # <<>>
    /\ NormalPath
    /\ FGtZero(DownsideVolatility(Returns))
    /\ \E j \in 1..Len(Returns) : Returns[j] = Zero
    /\ results[1].sortino_ratio # Fin(Zero)

\* the smallest of the returns, and the smallest of the others
LowestReturn(rs) ==
    CHOOSE m \in {rs[j] : j \in 1..Len(rs)} : \A j \in 1..Len(rs) : RLe(m, rs[j])
SecondLowestReturn(rs) ==
    LET at == CHOOSE j \in 1..Len(rs) : rs[j] = LowestReturn(rs)
        others == {j \in 1..Len(rs) : j # at}
    IN  CHOOSE m \in {rs[j] : j \in others} : \A j \in others : RLe(m, rs[j])

\* the linearly interpolated 5th percentile of at most 21 returns: the
\* position h = 0.05 * (n - 1) lies between the two smallest returns
P5(rs) ==
    LET lowest == LowestReturn(rs)
    IN  RAdd(lowest,
             RMul(Rat(PercentileQ * (Len(rs) - 1), 100),
                  RSub(SecondLowestReturn(rs), lowest)))

\* | x * total_value |, 0.0 when the product is not finite
LossAt(x) ==
    IF IsFinite(portfolio.total_value_usd)
    THEN Fin(RAbs(RMul(x, portfolio.total_value_usd.c)))
    ELSE Fin(Zero)

\* C23: for n >= 2 returns, value_at_risk = | P5 * total_value |, P5 the
\* linearly interpolated 5th percentile of the returns, total_value the
\* portfolio's current total value; the sign is discarded.
C23_ValueAtRisk ==
    \A i \in 1..Len(results) :
        NormalPath => results[i].value_at_risk = LossAt(P5(Returns))

\* a value at risk strictly between the two lowest returns, from a negative
\* total value
C23_Witness ==
    /\ results # <<>>
    /\ NormalPath
    /\ RLt(LowestReturn(Returns), SecondLowestReturn(Returns))
    /\ IsFinite(portfolio.total_value_usd)
    /\ RLt(portfolio.total_value_usd.c, Zero)
    /\ results[1].value_at_risk # Fin(Zero)

\* the returns at or below the threshold
TailReturns(rs) ==
    LET threshold == P5(rs)
    IN  SelectSeq(rs, LAMBDA x : RLe(x, threshold))

\* C24: for n >= 2 returns, conditional_var = | mean({r : r <= P5}) *
\* total_value |, P5 the threshold of value_at_risk, the comparison
\* inclusive; 0.0 if no return is at or below the threshold.
C24_ConditionalVaR ==
    \A i \in 1..Len(results) :
        NormalPath =>
            LET tail == TailReturns(Returns)
            IN  results[i].conditional_var =
                    IF tail = <<>> THEN Fin(Zero) ELSE LossAt(np_mean(tail))

\* two returns equal to the threshold, both in the tail
C24_Witness ==
    /\ results # <<>>
    /\ NormalPath
    /\ Len(TailReturns(Returns)) >= 2
    /\ Len(TailReturns(Returns)) < Len(Returns)
    /\ results[1].conditional_var # Fin(Zero)

\* C25: for every return series with n >= 2 elements the set of returns at
\* or below the interpolated 5th percentile is non-empty, it contains the
\* minimum return: the branch 'no return at or below the threshold' is not
\* taken on the normal path.
C25_TailNeverEmpty ==
    \A i \in 1..Len(results) :
        NormalPath =>
            LET rs == Returns
                tail == cvar_returns(rs, np_percentile(rs, PercentileQ))
                lowest == LowestReturn(rs)
            IN  /\ tail # <<>>
                /\ \E j \in 1..Len(tail) : tail[j] = lowest

\* a threshold equal to the minimum return, which occurs twice
C25_Witness ==
    /\ results # <<>>
    /\ NormalPath
    /\ np_percentile(Returns, PercentileQ) = LowestReturn(Returns)
    /\ SecondLowestReturn(Returns) = LowestReturn(Returns)
    /\ \E j \in 1..Len(Returns) : Returns[j] # LowestReturn(Returns)

RECURSIVE HasLeaf(_, _)
\* some scalar of the tree has one of the kinds
HasLeaf(tree, kinds) ==
    IF tree.t = "scalar" THEN tree.v.k \in kinds
    ELSE \E i \in 1..Len(tree.kids) : HasLeaf(tree.kids[i], kinds)

RECURSIVE Depth(_)
\* nesting depth: 0 for a scalar
Depth(tree) ==
    IF tree.t = "scalar" THEN 0
    ELSE 1 + (IF tree.kids = <<>> THEN 0
              ELSE CHOOSE d \in {Depth(tree.kids[i]) : i \in 1..Len(tree.kids)} :
                       \A i \in 1..Len(tree.kids) : Depth(tree.kids[i]) <= d)

RECURSIVE ReplacedBy(_, _, _)
\* out has the shape of in, holds d wherever in holds a nan or infinite
\* float, and holds no nan or infinite float
ReplacedBy(in, out, d) ==
    IF in.t \in {"dict", "list"}
    THEN /\ out.t = in.t
         /\ out.keys = in.keys
         /\ Len(out.kids) = Len(in.kids)
         /\ \A i \in 1..Len(in.kids) : ReplacedBy(in.kids[i], out.kids[i], d)
    ELSE /\ out.t = "scalar"
         /\ (in.v.k \in {"nan", "inf"} => out.v = d)
         /\ out.v.k \notin {"nan", "inf"}

\* C8: the sanitizer is idempotent: sanitizing its own result changes
\* nothing.
C8_CleanIdempotent ==
    Len(passes) >= 2 => passes[2] = passes[1]

\* a nested value that the first pass changed, sanitized twice
C8_Witness ==
    /\ Len(passes) = 2
    /\ Depth(data) >= 2
    /\ passes[1] # data
    /\ HasLeaf(data, {"nat"})

\* C9 as stated: the sanitizer returns a value equal to its input whenever
\* the input contains no nan or infinite float.
C9_UnchangedWithoutNonFinite ==
    (passes # <<>> /\ ~HasLeaf(data, {"nan", "inf"})) => passes[1] = data

\* C9, amended: the sanitizer returns a value equal to its input whenever the
\* input contains no nan or infinite float and no pandas missing scalar
\* (pd.NaT, pd.NA); such a scalar is replaced by None.
C9_UnchangedWithoutMissing ==
    (passes # <<>> /\ ~HasLeaf(data, {"nan", "inf", "nat"})) => passes[1] = data

\* a nested value holding an integer and a finite float, sanitized
C9_Witness ==
    /\ passes # <<>>
    /\ ~HasLeaf(data, {"nan", "inf", "nat"})
    /\ Depth(data) >= 2
    /\ HasLeaf(data, {"int"})
    /\ HasLeaf(data, {"fin"})

\* C10 as stated: every nan or infinite float is replaced by the default the
\* caller chose, at every nesting depth, and the result holds no non-finite
\* float.
C10_ReplacedByCallerDefault ==
    /\ (sf_out # <<>> => ReplacedBy(data, Scalar(sf_out[1]), default))
    /\ (passes # <<>> => ReplacedBy(data, passes[1], default))

\* C10, amended: safe_float replaces a nan or infinite float by the default
\* its caller supplies; clean_data_for_json takes no default and replaces
\* every nan or infinite float by 0.0, through every value of a dict and every
\* element of a list at every depth, so that its result holds no non-finite
\* float.
C10_ReplacedByZero ==
    /\ (sf_out # <<>> => ReplacedBy(data, Scalar(sf_out[1]), default))
    /\ (passes # <<>> => ReplacedBy(data, passes[1], Fin(Zero)))

\* a nan or infinite float two levels down, sanitized for a caller that
\* wants another default than 0.0
C10_Witness ==
    /\ passes # <<>>
    /\ default # Fin(Zero)
    /\ data.t # "scalar"
    /\ \E i \in 1..Len(data.kids) :
          /\ data.kids[i].t # "scalar"
          /\ HasLeaf(data.kids[i], {"nan", "inf"})

(***************************************************************************)
(* The in-memory cache: cache_store, cache_get, cache_set.                 *)
(* time.time() is the wall clock now; it never steps backwards here.       *)
(***************************************************************************)
CacheKeys == {"cmc_data_ETH", "wallet_balance_0xabc"}
CacheValues == {Fin(RInt(1)), Fin(RInt(2))}
Expires == {0, 1, 2}

\* del cache_store[key]
cache_del(store, key) == [k \in DOMAIN store \ {key} |-> store[k]]

\* an expiry that is reached counts as fresh
cache_get_inclusive(store, key, t) ==
    IF key \in DOMAIN store
    THEN IF t <= store[key].expiry
         THEN [data |-> store[key].data, store |-> store]
         ELSE [data |-> NoneVal, store |-> cache_del(store, key)]
    ELSE [data |-> NoneVal, store |-> store]

\* an expired entry is left in the store
cache_get_keep(store, key, t) ==
    IF key \in DOMAIN store /\ t < store[key].expiry
    THEN [data |-> store[key].data, store |-> store]
    ELSE [data |-> NoneVal, store |-> store]

\* cache_get(key) at the time t: the value returned and the store it leaves
cache_get(store, key, t) ==
    IF key \in DOMAIN store
    THEN IF t < store[key].expiry
         THEN [data |-> store[key].data, store |-> store]
         ELSE [data |-> NoneVal, store |-> cache_del(store, key)]
    ELSE [data |-> NoneVal, store |-> store]

\* cache_set(key, value, expire) at the time t
cache_set(store, key, value, expire, t) ==
    [k \in DOMAIN store \cup {key} |->
        IF k = key THEN [data |-> value, expiry |-> t + expire] ELSE store[k]]

\* a caller stores a value; cache_sets remembers the call
CacheSet ==
    \E key \in CacheKeys, value \in CacheValues, expire \in Expires :
        /\ cache_store' = cache_set(cache_store, key, value, expire, now)
        /\ cache_sets' = [k \in DOMAIN cache_sets \cup {key} |->
                             IF k = key
                             THEN [value |-> value, at |-> now, expire |-> expire]
                             ELSE cache_sets[k]]
        /\ cache_got' = <<>>
        /\ UNCHANGED <<metricVars, cleanVars, serviceVars, alerts, monitor, processed>>

\* a caller looks a key up; cache_got holds what the call returned
CacheGet ==
    \E key \in CacheKeys :
        LET got == cache_get(cache_store, key, now) IN
        /\ cache_store' = got.store
        /\ cache_got' = <<[key |-> key, data |-> got.data, at |-> now]>>
        /\ UNCHANGED <<metricVars, cleanVars, serviceVars, cache_sets, alerts, monitor, processed>>

InitCache ==
    /\ InitOn({CallerPortfolio("a")}, {<<>>}, 0)
    /\ rate_wanted = RiskFreeRate

NextCache == CacheSet \/ CacheGet \/ Tick
SpecCache == InitCache /\ [][NextCache]_vars

(***************************************************************************)
(* Properties of the cache                                                 *)
(***************************************************************************)
\* the latest cache_set of the key has not expired at the time t
FreshAt(sets, key, t) ==
    /\ key \in DOMAIN sets
    /\ t < sets[key].at + sets[key].expire

\* C28: cache_get(key) returns the value of the most recent
\* cache_set(key, value, expire) exactly when the time of the call is
\* strictly before that set's time plus expire, and None otherwise; after a
\* call that found an expired entry the key is no longer in the store.
C28_CacheFreshness ==
    cache_got # <<>> =>
        LET g == cache_got[1]
            fresh == FreshAt(cache_sets, g.key, g.at)
        IN  /\ fresh => g.data = cache_sets[g.key].value
            /\ ~fresh => g.data = NoneVal /\ g.key \notin DOMAIN cache_store
            /\ \A k \in DOMAIN cache_sets \ {g.key} :
                   k \in DOMAIN cache_store \/ ~FreshAt(cache_sets, k, g.at)

\* a lookup at exactly the expiry time of an entry that lived for a while:
\* None is returned and the entry is gone, the other key is still cached
C28_Witness ==
    /\ cache_got # <<>>
    /\ cache_got[1].key \in DOMAIN cache_sets
    /\ cache_sets[cache_got[1].key].expire > 0
    /\ cache_got[1].at = cache_sets[cache_got[1].key].at + cache_sets[cache_got[1].key].expire
    /\ cache_got[1].data = NoneVal
    /\ cache_got[1].key \notin DOMAIN cache_store
    /\ DOMAIN cache_store # {}

(***************************************************************************)
(* The background task monitor_portfolios, started by startup_event.       *)
(* One pass = one iteration of `while True`.  Documents of db.portfolios   *)
(* are only ever inserted (create_portfolio), never changed or deleted.    *)
(***************************************************************************)
MaxRounds == 2        \* passes of the monitoring loop that are followed
ToListLength == 1000  \* to_list(1000)
RiskThreshold == 80   \* if portfolio.risk_score > 80

\* documents of db.portfolios: a score just above the threshold, a score on
\* the threshold, and a document without user_id (not written by
\* create_portfolio) with a high score
MonitorDocs ==
    {[id |-> "p1", user_id |-> "u1", total_value_usd |-> Fin(RInt(10)),
      risk_score |-> Fin(Rat(801, 10))],
     [id |-> "p2", user_id |-> "u2", total_value_usd |-> Fin(RInt(10)),
      risk_score |-> Fin(RInt(80))],
     [id |-> "p3", total_value_usd |-> Fin(RInt(10)),
      risk_score |-> Fin(RInt(90))]}

\* find({}) has no sort: the documents in any order, at most `length` of them
to_list(collection, length) ==
    {SubSeq(s, 1, IF Len(s) < length THEN Len(s) ELSE length) :
        s \in {t \in [1..Cardinality(collection) -> collection] :
                  \A i, j \in 1..Cardinality(collection) : t[i] = t[j] => i = j}}

\* Portfolio(**portfolio_data): <<the model>>, or <<>> for a ValidationError
\* (a required field is missing, or a float field holds no number)
Portfolio(portfolio_data) ==
    LET score == IF "risk_score" \in DOMAIN portfolio_data
                 THEN portfolio_data.risk_score ELSE Fin(Zero)
    IN  IF /\ {"user_id", "total_value_usd"} \subseteq DOMAIN portfolio_data
           /\ portfolio_data.total_value_usd.k \in {"fin", "nan", "inf", "int"}
           /\ score.k \in {"fin", "nan", "inf", "int"}
        THEN <<[id |-> portfolio_data.id, user_id |-> portfolio_data.user_id,
                total_value_usd |-> portfolio_data.total_value_usd,
                risk_score |-> score]>>
        ELSE <<>>

\* the threshold itself raises an alert
high_risk_inclusive(risk_score) ==
    \/ risk_score.k = "inf" /\ RSign(risk_score.c) > 0
    \/ risk_score.k \in {"fin", "int"} /\ RLe(RInt(RiskThreshold), risk_score.c)

\* portfolio.risk_score > 80 (False for NaN)
high_risk(risk_score) ==
    \/ risk_score.k = "inf" /\ RSign(risk_score.c) > 0
    \/ risk_score.k \in {"fin", "int"} /\ RLt(RInt(RiskThreshold), risk_score.c)

\* f"{x:.1f}" of a finite x: the nearest multiple of 1/10, ties to even
format_1f(q) ==
    LET n == q[1] * 10
        d == q[2]
        lo == IF n >= 0 THEN n \div d ELSE -((-n + d - 1) \div d)
        rest == n - lo * d
        up == 2 * rest > d \/ (2 * rest = d /\ lo % 2 = 1)
    IN  Rat(IF up THEN lo + 1 ELSE lo, 10)

AlertModel(user_id, alert_type, message, severity, uuid4, utcnow) ==
    [id |-> uuid4, user_id |-> user_id, alert_type |-> alert_type,
     message |-> message, severity |-> severity, triggered_at |-> utcnow,
     resolved |-> FALSE]

\* the body of the for loop for one document: the alert inserted (if any),
\* the uuids drawn and the errors logged by `except Exception`
process_portfolio(portfolio_data, insert_fails, uuid4, utcnow) ==
    LET parsed == Portfolio(portfolio_data) IN
    IF parsed = <<>>
    THEN [inserted |-> <<>>, uuids |-> 0, logged |-> 1]
    ELSE IF high_risk(parsed[1].risk_score)
         THEN LET alert == AlertModel(parsed[1].user_id, "HIGH_RISK",
                                      <<"Portfolio risk score is",
                                        IF IsFinite(parsed[1].risk_score)
                                        THEN format_1f(parsed[1].risk_score.c)
                                        ELSE parsed[1].risk_score.c,
                                        "Consider rebalancing.">>,
                                      "high", uuid4, utcnow)
              IN  IF insert_fails
                  THEN [inserted |-> <<>>, uuids |-> 1, logged |-> 1]
                  ELSE [inserted |-> <<alert>>, uuids |-> 1, logged |-> 0]
         ELSE [inserted |-> <<>>, uuids |-> 0, logged |-> 0]

MonitorUnchanged ==
    UNCHANGED <<portfolio, historical_data, calls_left, now, results, escaped,
                cleanVars, serviceVars, cache_store, cache_sets, cache_got>>

\* asyncio.create_task(monitor_portfolios())
startup_event ==
    /\ monitor.pc = "off"
    /\ monitor' = [monitor EXCEPT !.pc = "find", !.pass = 1]
    /\ UNCHANGED <<uuid_next, error_log, alerts, processed>>
    /\ MonitorUnchanged

\* await db.portfolios.find({}, {"_id": 0}).to_list(1000): the list, or an
\* exception of the driver caught by the outer except clause
Find ==
    /\ monitor.pc = "find"
    /\ \/ /\ \E found \in to_list(db.portfolios, ToListLength) :
                monitor' = [monitor EXCEPT !.pc = "for", !.portfolios = found,
                                           !.next = 1]
          /\ error_log' = error_log
       \/ /\ monitor' = [monitor EXCEPT !.pc = "sleep60"]
          /\ error_log' = error_log + 1
    /\ UNCHANGED <<uuid_next, alerts, processed>>
    /\ MonitorUnchanged

\* one iteration of `for portfolio_data in portfolios`
Process ==
    /\ monitor.pc = "for"
    /\ monitor.next <= Len(monitor.portfolios)
    /\ \E insert_fails \in BOOLEAN :
          LET portfolio_data == monitor.portfolios[monitor.next]
              out == process_portfolio(portfolio_data, insert_fails, uuid_next, now)
          IN  /\ alerts' = alerts \o out.inserted
              /\ uuid_next' = uuid_next + out.uuids
              /\ error_log' = error_log + out.logged
              /\ processed' = Append(processed,
                                     [pass |-> monitor.pass, doc |-> portfolio_data,
                                      raised |-> out.logged = 1,
                                      alerts_before |-> Len(alerts)])
    /\ monitor' = [monitor EXCEPT !.next = monitor.next + 1]
    /\ MonitorUnchanged

\* the list is exhausted: await asyncio.sleep(300)
EndFor ==
    /\ monitor.pc = "for"
    /\ monitor.next > Len(monitor.portfolios)
    /\ monitor' = [monitor EXCEPT !.pc = "sleep300"]
    /\ UNCHANGED <<uuid_next, error_log, alerts, processed>>
    /\ MonitorUnchanged

\* the sleep is over: the next iteration of `while True`
Wake ==
    /\ monitor.pc \in {"sleep300", "sleep60"}
    /\ monitor.pass < MaxRounds
    /\ monitor' = [pc |-> "find", pass |-> monitor.pass + 1, portfolios |-> <<>>,
                   next |-> 0]
    /\ UNCHANGED <<uuid_next, error_log, alerts, processed>>
    /\ MonitorUnchanged

\* create_portfolio stores a new document while the monitor runs
insert_portfolio ==
    /\ \E doc \in MonitorDocs \ db.portfolios :
          db' = [db EXCEPT !.portfolios = db.portfolios \cup {doc}]
    /\ UNCHANGED <<metricVars, cleanVars, rate_wanted, calls, responses, backgroundVars>>

InitMonitor ==
    /\ portfolio = CallerPortfolio("a")
    /\ historical_data = <<>>
    /\ calls_left = 0
    /\ now = 0
    /\ uuid_next = 1
    /\ results = <<>>
    /\ escaped = FALSE
    /\ error_log = 0
    /\ CleanIdle
    /\ BackgroundIdle
    /\ rate_wanted = RiskFreeRate
    /\ calls = <<>>
    /\ db \in {[portfolios |-> docs, risk_metrics |-> <<>>] :
                   docs \in SUBSET MonitorDocs}
    /\ responses = <<>>

MonitorStep == startup_event \/ Find \/ Process \/ EndFor \/ Wake
NextMonitor == MonitorStep \/ insert_portfolio

\* the event loop resumes the task whenever its await has completed
SpecMonitor == InitMonitor /\ [][NextMonitor]_vars /\ WF_vars(MonitorStep)

(***************************************************************************)
(* Properties of the monitor                                               *)
(***************************************************************************)
\* the alerts inserted while the i-th processed document was handled
AlertsOf(done, all, i) ==
    SubSeq(all, done[i].alerts_before + 1,
           IF i < Len(done) THEN done[i + 1].alerts_before ELSE Len(all))

\* the stored risk_score of a document (0.0 when the field is absent)
StoredScore(doc) == IF "risk_score" \in DOMAIN doc THEN doc.risk_score ELSE Fin(Zero)
Above80(doc) ==
    /\ IsFinite(StoredScore(doc))
    /\ StoredScore(doc).c[1] > RiskThreshold * StoredScore(doc).c[2]

IsHighRiskAlert(alert, doc) ==
    /\ alert.alert_type = "HIGH_RISK"
    /\ alert.severity = "high"
    /\ alert.user_id = doc.user_id
    /\ alert.resolved = FALSE

\* the documents handled in the pass n, in order
HandledIn(done, n) ==
    LET mine == SelectSeq(done, LAMBDA e : e.pass = n)
    IN  [i \in 1..Len(mine) |-> mine[i].doc]

\* the original reading: in every pass every portfolio gets an alert exactly
\* when its score is above 80, whether or not its processing raised
C29_AlertIffAbove80 ==
    \A i \in 1..Len(processed) :
        (AlertsOf(processed, alerts, i) # <<>>) <=> Above80(processed[i].doc)

\* safety part: per processed document, and per finished pass
MonitorSafe ==
    /\ \A i \in 1..Len(processed) :
          LET e == processed[i]
              new == AlertsOf(processed, alerts, i)
          IN  IF ~e.raised /\ Above80(e.doc)
              THEN Len(new) = 1 /\ IsHighRiskAlert(new[1], e.doc)
              ELSE new = <<>>
    /\ monitor.pc = "sleep300" =>
          HandledIn(processed, monitor.pass) = monitor.portfolios
    /\ monitor.pc = "for" =>
          HandledIn(processed, monitor.pass)
              = SubSeq(monitor.portfolios, 1, monitor.next - 1)
    /\ \A i \in 1..Len(processed) :
          /\ processed[i].pass \in 1..monitor.pass
          /\ i > 1 => processed[i - 1].pass <= processed[i].pass

\* C29: in every pass, for each portfolio the pass fetched and processed
\* without an exception, exactly one HIGH_RISK alert (severity high, for the
\* portfolio's user) is inserted if and only if its risk_score is strictly
\* greater than 80; a portfolio whose processing raises gets no alert in
\* that pass; every fetched portfolio of a pass is processed whatever
\* exceptions the earlier ones raised; and every pass is followed by a later
\* pass, also when the fetch itself failed (passes are numbered one by one,
\* so the loop reaches pass MaxRounds in every behaviour).
C29_MonitorLoop ==
    /\ []MonitorSafe
    /\ <>(monitor.pass = MaxRounds)

\* a pass in which the processing of one portfolio raised although its score
\* is above 80, and a portfolio after it still got its alert
C29_Witness ==
    \E i, j \in 1..Len(processed) :
        /\ i < j
        /\ processed[i].pass = MaxRounds /\ processed[j].pass = MaxRounds
        /\ processed[i].raised /\ Above80(processed[i].doc)
        /\ ~processed[j].raised /\ Above80(processed[j].doc)
        /\ AlertsOf(processed, alerts, j) # <<>>
        /\ monitor.pc = "sleep300"

====
